---- MODULE Spec2Model ----
(***************************************************************************)
(* Resumable batch download pipeline of web_scraping_101.                  *)
(*                                                                         *)
(* Two batch runners are modelled, each with its own fetcher:              *)
(*   "nu"     crawl/nu/crawl_main.py        main, download_pdf_with_retries *)
(*   "thaijo" crawl/thaijo/fetch_pdf_urls.py                               *)
(*            fetch_and_download_pdfs_from_urls, download_pdf_with_retries *)
(*                                                                         *)
(* Spec      is the batch runner: runs over the target list, the result    *)
(*           store in memory and on disk, aborts between targets, a remote *)
(*           side that may change.  A call of the fetcher is one step; its *)
(*           possible results are computed from the attempt loop below.    *)
(* SpecFetch is one call of download_pdf_with_retries, one attempt a step. *)
(* SpecKill  is Spec with a process that can be killed at any point, the   *)
(*           middle of a save included, and a load that can raise.         *)
(* SpecFetchInt is SpecFetch with an interrupt while a body is streamed.   *)
(* SpecLive  is Spec with weak fairness of the program's own steps.        *)
(* SpecSniff is one call of get_download_url_from_fetch, one navigation a  *)
(*           step.                                                         *)
(* SpecDrive is one call of download_pdf_from_google_drive, one pass a     *)
(*           step.                                                         *)
(* SpecScan  is one call of extract_pdf_links_with_label_check.            *)
(* SpecSniffPage is SpecSniff with call after call on the shared page.     *)
(* SpecNames is the file names one run writes, with the wall clock.        *)
(* SpecLog   is the logging set up by the packages of one process.         *)
(* SpecUtil  is utils.download_pdfs, called again with the same list.      *)
(***************************************************************************)
EXTENDS Integers, Sequences, FiniteSets, TLC

\* ------------------------------------------------------------------ bounds
\* Number of targets of a run (nu: MAX_ID - 1, thaijo: len(url_list)).
NumTargets == 2
\* Number of runs of the batch that are followed.
MaxRuns == 2
\* Number of calls of the resolver on the shared page.
MaxCalls == 2
\* Number of calls of utils.download_pdfs with the same list.
MaxUtilCalls == 2
\* Number of records logged.
MaxRecords == 2
\* Number of downloads written to the directory, and the last second of the
\* clock.
MaxSaves == 3
MaxClock == 2
\* Longest label and longest url of a markdown link, in tokens.
MaxLabel == 2
MaxUrl == 3

\* ------------------------------------------------------- program constants
\* max_retries of download_pdf_with_retries and get_download_url_from_fetch.
max_retries == 5

Variants == {"nu", "thaijo"}

\* What one attempt's session.get / requests.get can meet.
\*   ok200     status 200, the body streams to the end, at least one byte
\*   empty200  status 200, the body is empty
\*   broken200 status 200, the connection breaks or times out while the
\*             body is streamed (iter_content raises)
\*   s429, s403, s404, s500   those statuses (s500: any status >= 500)
\*   sOther    any other status (for instance 400, 401, 410)
\*   timeout, connerr, reqexc, exc   the call raises Timeout,
\*             ConnectionError, another RequestException, another Exception
Resp ==
    {"ok200", "empty200", "broken200", "s429", "s403", "s404", "s500",
     "sOther", "timeout", "connerr", "reqexc", "exc"}

\* The result of one pass through the body of the attempt loop:
\*   ctl   "return" (the function returns ret), "continue" (next attempt) or
\*         "raise" (an exception leaves the function; ret is "raised")
\*   ret   "None", or the returned path, named by what the file held when it
\*         was written: "file_full" (size > 0) or "file_empty" (size 0)
\*   left  the file this attempt leaves in save_dir: "none", "full",
\*         "empty" or "partial" (truncated, possibly zero bytes)
\*   sleep the backoff slept: "none", "j13" (2^attempt + uniform(1,3)) or
\*         "j15" (2^attempt + uniform(1,5))
Result(ctl, ret, left, sleep) ==
    [ctl |-> ctl, ret |-> ret, left |-> left, sleep |-> sleep]

\* NuAttempt with 404 left out of the terminal statuses: it falls to the
\* branch of the other statuses.
NuAttemptRetry404(resp) ==
    CASE resp = "ok200" -> Result("return", "file_full", "full", "none")
      [] resp = "empty200" -> Result("continue", "None", "none", "none")
      [] resp = "broken200" -> Result("continue", "None", "partial", "j13")
      [] resp = "s429" -> Result("continue", "None", "none", "j15")
      [] resp = "s403" -> Result("return", "None", "none", "none")
      [] OTHER -> Result("continue", "None", "none", "j13")

\* NuAttempt that gives up on a status of 500 or more, as it does on 403.
NuAttemptNoRetry500(resp) ==
    CASE resp = "ok200" -> Result("return", "file_full", "full", "none")
      [] resp = "empty200" -> Result("continue", "None", "none", "none")
      [] resp = "broken200" -> Result("continue", "None", "partial", "j13")
      [] resp = "s429" -> Result("continue", "None", "none", "j15")
      [] resp \in {"s403", "s404", "s500"} ->
            Result("return", "None", "none", "none")
      [] OTHER -> Result("continue", "None", "none", "j13")

\* NuAttempt without the size check after the write: the path of the file is
\* returned whatever it holds.
NuAttemptNoSizeCheck(resp) ==
    CASE resp = "ok200" -> Result("return", "file_full", "full", "none")
      [] resp = "empty200" -> Result("return", "file_empty", "empty", "none")
      [] resp = "broken200" -> Result("continue", "None", "partial", "j13")
      [] resp = "s429" -> Result("continue", "None", "none", "j15")
      [] resp \in {"s403", "s404"} -> Result("return", "None", "none", "none")
      [] OTHER -> Result("continue", "None", "none", "j13")

\* crawl/nu/crawl_main.py, download_pdf_with_retries, lines 72-173.
NuAttempt(resp) ==
    CASE resp = "ok200" -> Result("return", "file_full", "full", "none")
      [] resp = "empty200" -> Result("continue", "None", "none", "none")
      [] resp = "broken200" -> Result("continue", "None", "partial", "j13")
      [] resp = "s429" -> Result("continue", "None", "none", "j15")
      [] resp \in {"s403", "s404"} -> Result("return", "None", "none", "none")
      [] resp = "s500" -> Result("continue", "None", "none", "j13")
      [] resp = "sOther" -> Result("continue", "None", "none", "j13")
      [] OTHER -> Result("continue", "None", "none", "j13")

\* ThaijoAttempt whose except clause catches requests.RequestException
\* only: another exception leaves the function.
ThaijoAttemptCatchTransport(resp) ==
    CASE resp = "ok200" -> Result("return", "file_full", "full", "none")
      [] resp = "empty200" -> Result("return", "file_empty", "empty", "none")
      [] resp = "broken200" -> Result("continue", "None", "partial", "j13")
      [] resp = "s429" -> Result("continue", "None", "none", "j15")
      [] resp \in {"s403", "s404", "s500", "sOther"} ->
            Result("return", "None", "none", "none")
      [] resp = "exc" -> Result("raise", "raised", "none", "none")
      [] OTHER -> Result("continue", "None", "none", "j13")

\* crawl/thaijo/fetch_pdf_urls.py, download_pdf_with_retries, lines 99-130.
ThaijoAttempt(resp) ==
    CASE resp = "ok200" -> Result("return", "file_full", "full", "none")
      [] resp = "empty200" -> Result("return", "file_empty", "empty", "none")
      [] resp = "broken200" -> Result("continue", "None", "partial", "j13")
      [] resp = "s429" -> Result("continue", "None", "none", "j15")
      [] resp \in {"s403", "s404", "s500", "sOther"} ->
            Result("return", "None", "none", "none")
      [] OTHER -> Result("continue", "None", "none", "j13")

Attempt(v, resp) == IF v = "nu" THEN NuAttempt(resp) ELSE ThaijoAttempt(resp)

\* What random.uniform adds to the backoff, by its integer part:
\* uniform(1.0, 3.0) for "j13", uniform(1.0, 5.0) for "j15"; no sleep, none.
Jitter(sleep) ==
    CASE sleep = "j13" -> 1..3
      [] sleep = "j15" -> 1..5
      [] OTHER -> {0}

\* Backoff whose base grows by one a retry instead of doubling.
BackoffLinear(a, j) == a + j

\* wait_time = (2 ** attempt) + random.uniform(...), in whole seconds.
Backoff(a, j) == 2^a + j

\* The session a call of the fetcher holds when its loop starts: nu creates
\* a requests.Session (line 55); thaijo calls requests.get, which holds none.
OpenSession(v) == IF v = "nu" THEN "open" ELSE "none"

\* A close that is reached only when the loop body returns a value.
FinallyOnReturn(v, how, s) ==
    IF v = "nu" /\ how = "return" THEN "closed" ELSE s

\* nu 175-177, finally: session.close().  It runs however the try block is
\* left: how is "return", "raise" (an exception goes through) or "exhaust"
\* (the loop ran out).
Finally(v, how, s) == IF v = "nu" THEN "closed" ELSE s

\* MoreAttempts with the loop bound off by one.
MoreAttemptsOffByOne(a) == a <= max_retries

\* for attempt in range(max_retries)
MoreAttempts(a) == a < max_retries

\* How download_pdf_with_retries can end when it starts attempt a ("raised":
\* with an exception): the value of an attempt that returns, or, when an attempt continues, what
\* the rest of the loop returns; None after the loop.
RECURSIVE ReturnsFrom(_, _)
ReturnsFrom(v, a) ==
    IF ~MoreAttempts(a) THEN {"None"}
    ELSE LET rs == {Attempt(v, resp) : resp \in Resp}
         IN  {r.ret : r \in {x \in rs : x.ctl # "continue"}}
             \cup (IF \E x \in rs : x.ctl = "continue"
                   THEN ReturnsFrom(v, a + 1) ELSE {})

FetchReturns(v) == ReturnsFrom(v, 0)

\* What the first response of an attempt of download_pdf_from_google_drive
\* carries: a Content-Disposition header ("cd"), none but a download_warning
\* cookie ("token": the request is sent again with the confirm token), or
\* neither ("bare").
DriveFirst == {"cd", "token", "bare"}

\* crawl/thaijo/fetch_pdf_urls.py, download_pdf_from_google_drive, one pass
\* through the loop body (lines 150-199).  resp is what the GET whose
\* response is classified meets (the confirmed one after a token).  Only
\* requests.RequestException is caught; the file is written with no check of
\* its size.  left # "none" says the pass reached line 186, where file_id is
\* bound.
DriveAttempt(first, resp) ==
    CASE resp \in {"timeout", "connerr", "reqexc"} ->
            Result("continue", "None", "none", "j13")
      [] resp = "exc" -> Result("raise", "raised", "none", "none")
      [] first = "bare" -> Result("return", "None", "none", "none")
      [] resp = "s429" -> Result("continue", "None", "none", "j15")
      [] resp \in {"s403", "s404", "s500", "sOther"} ->
            Result("continue", "None", "none", "j13")
      [] resp = "ok200" -> Result("return", "file_full", "full", "none")
      [] resp = "empty200" -> Result("return", "file_empty", "empty", "none")
      [] OTHER -> Result("continue", "None", "partial", "j13")

\* What makes session.get raise instead of giving a response.
Raising == {"timeout", "connerr", "reqexc", "exc"}

\* Classified that keeps the first response after a confirmation.
ClassifiedFirst(first, r1, r2) == r1

\* The response download_pdf_from_google_drive goes on with after the test
\* of the headers (156-171), r1 being what the first GET met and r2 what the
\* confirmed one met: response is assigned again at line 168.
Classified(first, r1, r2) ==
    IF first = "token" /\ r1 \notin Raising THEN r2 ELSE r1

\* Line 166: confirm_url = f"{pdf_download_url}&confirm={confirm_token}"
ConfirmUrl(u, t) == u \o <<"&confirm=", t>>

\* The urls of the GETs of one pass (153, 168).
DriveUrls(u, first, r1) ==
    IF first = "token" /\ r1 \notin Raising
    THEN <<u, ConfirmUrl(u, "tok")>> ELSE <<u>>

\* How download_pdf_from_google_drive can end when it starts attempt a,
\* bound saying whether file_id is bound.  After the loop line 202 reads
\* file_id: UnboundLocalError unless an earlier pass bound it.
RECURSIVE DriveReturnsFrom(_, _)
DriveReturnsFrom(a, bound) ==
    IF ~MoreAttempts(a) THEN (IF bound THEN {"None"} ELSE {"raised"})
    ELSE LET rs == {DriveAttempt(f, resp) : f \in DriveFirst, resp \in Resp}
             go == {bound \/ x.left # "none" : x \in {y \in rs : y.ctl = "continue"}}
         IN  {r.ret : r \in {x \in rs : x.ctl # "continue"}}
             \cup UNION {DriveReturnsFrom(a + 1, b) : b \in go}

DriveReturns == DriveReturnsFrom(0, FALSE)

\* The runner's handler that lets the exception go up instead of logging it.
AfterRaisePropagates(v) == "crashed"

\* What the runner does with an exception raised while a target is resolved
\* or downloaded: except Exception logs it and the loop body goes on to the
\* record.  (thaijo 240-241 and 253-254)
AfterRaise(v) == "record"

\* The loop over the candidates that stops at the first one saved.
StopAtFirstSaved(c, links, out) == c < Len(links) /\ out \in {"None", "raised"}

\* for download_url in links_to_download (nu 252): there is a next
\* candidate whatever the fetch of this one gave.
MoreCandidates(c, links, out) == c < Len(links)

\* --------------------------------------------------------- result store
\* The targets of a run, in list order: nu's range(1, MAX_ID), thaijo's
\* url_list.  ExtraKey is a key an earlier run over another list recorded.
Targets == 1..NumTargets
ExtraKey == NumTargets + 1

\* thaijo's url_list: pages of the journal site, and a Google Drive share url
\* at the end.
Url(t) == IF t = NumTargets THEN "drive_id" ELSE "page"

\* "drive.google.com" in url (thaijo 231)
InDrive(u) == u \in {"drive_id", "drive_noid"}

\* get_download_url_from_google_drive (135-145): the uc?export=download url
\* when the share url holds a file id, else None.
get_download_url_from_google_drive(u) ==
    IF u = "drive_id" THEN "drive_url" ELSE "None"

\* Dictionary keys.  nu writes results[index] with the int index and tests
\* str(index); json.dump writes every key as a string and json.load reads
\* strings back.  thaijo's keys are the url strings.
IntKey(i) == <<"int", i>>
StrKey(i) == <<"str", i>>

EmptyMap == [k \in {} |-> k]

\* Put that replaces the dict by one holding the new entry alone.
PutAlone(d, k, v) == [x \in {k} |-> v]

\* results[k] = v
Put(d, k, v) == [x \in DOMAIN d \cup {k} |-> IF x = k THEN v ELSE d[x]]

\* json.dump(results): int keys become their strings; of two entries that
\* end under one string, json.load keeps the later one, which is the int key
\* (string keys come from the load, int keys are inserted after it).
Dump(d) ==
    [k \in {StrKey(x[2]) : x \in DOMAIN d} |->
        IF IntKey(k[2]) \in DOMAIN d THEN d[IntKey(k[2])] ELSE d[k]]

\* A load that reads a file it cannot parse as no file at all.
LoadRaisesNever(state) == FALSE

\* json.load(f) raises when the file exists and does not hold JSON (nu 20-21,
\* thaijo 26-27); nothing catches it.
LoadRaises(state) == state = "corrupt"

\* load_existing_results that starts from {} whatever the file holds.
LoadNothing(state, content) == EmptyMap

\* load_existing_results: the parsed file, or {} when there is no file.
\* (crawl/nu/crawl_main.py 18-22, crawl/thaijo/fetch_pdf_urls.py 24-28)
load_existing_results(state, content) ==
    IF state = "ok" THEN content ELSE EmptyMap

\* Python's None in a string-valued field.  In nu's list-valued fields
\* (download_url, downloaded_filename) None is written <<>>: the lists the
\* code stores there are never empty (lines 247, 272).
None == "None"

\* thaijo, lines 257-258.
ThaijoRecord(pdf_download_link, saved_filepath) ==
    [download_link |-> pdf_download_link, filename |-> saved_filepath]

\* nu, crawl_and_download_pdf lines 272-280 and main lines 301-310.
NuRecord(index, links_to_download, downloaded_files) ==
    IF downloaded_files # <<>>
    THEN [source_url |-> index, download_url |-> links_to_download,
          downloaded_filename |-> downloaded_files]
    ELSE [source_url |-> index, download_url |-> <<>>,
          downloaded_filename |-> <<>>]

\* thaijo line 220: url in results and results[url]["download_link"] is not None
ThaijoSkip(d, i) ==
    StrKey(i) \in DOMAIN d /\ d[StrKey(i)].download_link # None

\* NuSkip that tests the int index instead of str(index).
NuSkipIntKey(d, i) == IntKey(i) \in DOMAIN d

\* nu line 292: str(index) in results
NuSkip(d, i) == StrKey(i) \in DOMAIN d

SkipTest(v, d, i) == IF v = "nu" THEN NuSkip(d, i) ELSE ThaijoSkip(d, i)

\* What a record says, read by the fields the runner wrote.
HasFile(v, r) ==
    IF v = "nu" THEN r.downloaded_filename # <<>> ELSE r.filename # None
HasLink(v, r) ==
    IF v = "nu" THEN r.download_url # <<>> ELSE r.download_link # None
IsSuccess(v, r) == HasFile(v, r)
IsDownloadFailed(v, r) == HasLink(v, r) /\ ~HasFile(v, r)
IsNoLink(v, r) == ~HasLink(v, r) /\ ~HasFile(v, r)

\* bool(v) of a value of results: a dict is true unless it is empty.
Truthy(r) == DOMAIN r # {}

\* What is logged after the loop.  thaijo 265-267: "Completed processing
\* {len(url_list)} URLs" and "Total PDFs found: {sum(1 for v in
\* results.values() if v)}".  nu's main (283-312) logs no summary.
Summary(v, d) ==
    IF v = "thaijo"
    THEN [over |-> TRUE, shown |-> TRUE, processed |-> NumTargets,
          found |-> Cardinality({k \in DOMAIN d : Truthy(d[k])})]
    ELSE [over |-> TRUE, shown |-> FALSE, processed |-> 0, found |-> 0]

\* ------------------------------------------------------------ remote side
\* The remote side is free: each navigation and each request meets any of
\* the cases below.
\* What a navigation to a thaijo target meets: a response with content type
\* application/pdf ("pdf"), no such response but an anchor ending in .pdf
\* ("anchor"), neither ("none"), status 429, or page.goto raising.
PageThaijo == {"pdf", "anchor", "none", "s429", "exc"}
\* What crawling a nu page yields: markdown with one or two pdf links, with
\* none, or a crawl error (crawl_webpage returns None).
PageNu == {"links1", "links2", "none", "exc"}
PageStates(v) == IF v = "nu" THEN PageNu ELSE PageThaijo

\* SniffAttempt that lets the exception of the last navigation go up.
SniffAttemptRaisesAtEnd(p, a) ==
    CASE p = "pdf" -> "pdf_url"
      [] p = "anchor" -> "anchor_url"
      [] p = "s429" -> IF a + 1 < max_retries THEN "retry" ELSE "None"
      [] p = "none" -> IF a < max_retries - 1 THEN "retry" ELSE "None"
      [] OTHER -> IF a < max_retries - 1 THEN "retry" ELSE "raised"

\* SniffAttempt that returns None on the first 429.
SniffAttemptNo429Retry(p, a) ==
    CASE p = "pdf" -> "pdf_url"
      [] p = "anchor" -> "anchor_url"
      [] p = "s429" -> "None"
      [] p = "none" -> IF a < max_retries - 1 THEN "retry" ELSE "None"
      [] OTHER -> IF a < max_retries - 1 THEN "retry" ELSE "None"

\* SniffAttempt with no ceiling on the navigations of a page that shows no
\* PDF.
SniffAttemptNoCeiling(p, a) ==
    CASE p = "pdf" -> "pdf_url"
      [] p = "anchor" -> "anchor_url"
      [] p = "s429" -> IF a + 1 < max_retries THEN "retry" ELSE "None"
      [] p = "none" -> "retry"
      [] OTHER -> IF a < max_retries - 1 THEN "retry" ELSE "None"

\* One pass through the navigation loop of get_download_url_from_fetch
\* (lines 46-92) at attempt a on a page in state p: the url returned, None
\* returned, or "retry".
SniffAttempt(p, a) ==
    CASE p = "pdf" -> "pdf_url"
      [] p = "anchor" -> "anchor_url"
      [] p = "s429" -> IF a + 1 < max_retries THEN "retry" ELSE None
      [] p = "none" -> IF a < max_retries - 1 THEN "retry" ELSE None
      [] OTHER -> IF a < max_retries - 1 THEN "retry" ELSE None

\* The backoff get_download_url_from_fetch sleeps at attempt a on a page in
\* state p: after a 429 always (50-52), after no PDF and after an exception
\* unless the attempt is the last (75-78, 85-88); 2^attempt + uniform(1, 3).
SniffSleep(p, a) ==
    CASE p = "s429" -> "j13"
      [] p \in {"none", "exc"} -> IF a < max_retries - 1 THEN "j13" ELSE "none"
      [] OTHER -> "none"

\* Urls, as the sequences of their parts between slashes.
\* The url of the page after the navigation (page.url).
PageUrl == <<"https:", "", "host", "dir", "page">>
\* Urls of responses with content type application/pdf.
PdfUrl1 == <<"https:", "", "cdn", "one.pdf">>
PdfUrl2 == <<"https:", "", "cdn", "two.pdf">>
\* The href of the first anchor whose href ends in .pdf: absolute, relative
\* to the directory of the page, relative to the root of the host; <<>> when
\* the page has no such anchor.
HrefAbs == <<"https:", "", "other", "files", "a.pdf">>
HrefRel == <<"a.pdf">>
HrefRoot == <<"", "files", "a.pdf">>
Hrefs == {<<>>, HrefAbs, HrefRel, HrefRoot}

\* What one navigation of the resolver meets: page.goto raises ("exc"),
\* answers 429, or answers otherwise ("ok"); pdfs are the urls the response
\* handler appended to pdf_urls during it, in order; href as above.
Navs ==
    [status : {"ok", "s429", "exc"},
     pdfs : {<<>>, <<PdfUrl1>>, <<PdfUrl1, PdfUrl2>>, <<PdfUrl2, PdfUrl1>>},
     href : Hrefs]

\* No navigation yet.
NoNav == [status |-> "init", pdfs |-> <<>>, href |-> <<>>]

\* A clear that leaves the list as it is.
ClearKeeps(l) == l

\* pdf_urls.clear() (line 48)
Clear(l) == <<>>

\* handle_response (39-42) for the PDF responses of one navigation, in
\* order: pdf_urls.append(response.url); c and a say when.
Capture(l, urls, c, a) ==
    l \o [i \in 1..Len(urls) |-> [url |-> urls[i], call |-> c, att |-> a]]

\* The case of SniffAttempt a navigation falls in (lines 48-72).
PageKind(n) ==
    CASE n.status = "exc" -> "exc"
      [] n.status = "s429" -> "s429"
      [] n.pdfs # <<>> -> "pdf"
      [] n.href # <<>> -> "anchor"
      [] OTHER -> "none"

\* href.startswith("http")
StartsWithHttp(h) == h[1] \in {"http:", "https:"}

\* Line 70: full_url = page.url if href.startswith("http")
\*                     else page.url.rsplit("/", 1)[0] + "/" + href
AnchorUrl(u, h) ==
    IF StartsWithHttp(h) THEN u ELSE SubSeq(u, 1, Len(u) - 1) \o h

\* What the resolver returns, r being what SniffAttempt gave for the
\* navigation n: pdf_urls[0] (63), full_url (72), None.
SniffValue(n, r) ==
    CASE r = "pdf_url" -> [kind |-> "url", url |-> n.pdfs[1]]
      [] r = "anchor_url" -> [kind |-> "url", url |-> AnchorUrl(PageUrl, n.href)]
      [] r = "raised" -> [kind |-> "raised", url |-> <<>>]
      [] OTHER -> [kind |-> "none", url |-> <<>>]

\* get_download_links(crawl_webpage(url)), nu lines 242-248: the candidate
\* list, <<>> for None.
NuLinks(p) ==
    CASE p = "links1" -> <<"c1">>
      [] p = "links2" -> <<"c1", "c2">>
      [] OTHER -> <<>>

\* ----------------------------------------------------------------- logging
\* The packages that set up a logger at import, and the log path each
\* passes (nu/__init__.py 21-24, thaijo/__init__.py 18-21,
\* thaijo/fetch_pdf_urls.py 18-21).
Packages == {"nu", "thaijo", "thaijo_fetch"}
LogFile(pkg) ==
    CASE pkg = "nu" -> "ku_scrape.log"
      [] pkg = "thaijo" -> "thaijo_scrape.log"
      [] OTHER -> "scrape_pdf_urls.log"

\* logging.DEBUG, logging.INFO, logging.ERROR
DEBUG == 10
INFO == 20
ERROR == 40
Levels == {DEBUG, INFO, ERROR}

\* The process before utils.logger is imported: the logger "utils.logger"
\* has no handler.
NoLog ==
    [imported |-> FALSE, level |-> 0, handlers |-> {}, called |-> {},
     emitted |-> <<>>, files |-> {}]

\* setup_logging (utils/logger.py 3-37): logging.getLogger(__name__) is the
\* one logger "utils.logger" whoever calls; its level is set on every call,
\* the handlers are added only when it has none.  (The console handler writes
\* to no file and is left out.)
setup_logging(lg, log_file, level) ==
    [lg EXCEPT !.level = level,
               !.handlers = IF @ = {}
                            THEN {[file |-> log_file, level |-> level]}
                            ELSE @]

\* from utils.logger import setup_logging: the first import runs the module,
\* whose line 39 is LOGGER = setup_logging().
ImportLogger(lg) ==
    IF lg.imported THEN lg
    ELSE [setup_logging(lg, "output.log", INFO) EXCEPT !.imported = TRUE]

\* Logger.log of record number n at level lvl: dropped under the level of
\* the logger, else handed to every handler whose level it reaches.
Handle(lg, n, lvl) ==
    IF lvl < lg.level THEN lg.files
    ELSE lg.files \cup {[file |-> h.file, n |-> n] :
                          h \in {x \in lg.handlers : lvl >= x.level}}

\* ------------------------------------------------------ utils.download_pdfs
\* The list download_pdfs is called with: urls by their last path segment.
UtilUrls == <<"a.pdf", "b">>

\* Lines 63-65: the last segment, with .pdf appended unless it ends so.
UtilFileName(u) == IF u = "b" THEN "b.pdf" ELSE u

\* What the download of one url meets: the GET raises a RequestException,
\* raise_for_status raises for a 4xx or 5xx status, open raises OSError, the
\* copy of the body breaks after the file was opened, or all goes well.
UtilOutcomes == {"reqexc", "http_error", "oserror", "broken", "ok"}

\* What the file holds after the download: lines 75-79 open the destination
\* file once the status is good and copy the body into it; a copy that
\* breaks leaves the part written, and nothing removes it.
UtilLeft(o, before) ==
    CASE o = "ok" -> "full"
      [] o = "broken" -> "partial"
      [] OTHER -> before

\* os.path.exists(filepath) (line 70)
Exists(folder, name) == folder[name] # "absent"

\* No call of download_pdfs yet: the folder is empty.
NoUtil ==
    [call |-> 1, pos |-> 1,
     folder |-> [n \in {UtilFileName(UtilUrls[i]) : i \in 1..Len(UtilUrls)} |-> "absent"],
     did |-> [c \in 1..MaxUtilCalls |-> [i \in 1..Len(UtilUrls) |-> "none"]]]

\* ------------------------------------------------------------ file names
\* The urls downloaded: the part before the last slash, and the last path
\* segment without its query, as os.path.splitext splits it; a Drive
\* download url ends in id=<file id>.
PageUrls ==
    [kind : {"page"}, host : {"h1", "h2"},
     base : {<<"a", ".pdf">>, <<"a", "">>, <<"b", ".bin">>}]
DriveDownloadUrls == [kind : {"drive"}, host : {"drive"}, base : {<<"x", "">>, <<"y", "">>}]
DownloadUrls(v) == IF v = "nu" THEN PageUrls ELSE PageUrls \cup DriveDownloadUrls

\* datetime.datetime.now().strftime("%Y%m%d_%H%M%S"): the clock, to the
\* second.
Timestamp(clock) == clock

\* The extension of the file: nu 93-95 forces .pdf unless the url has it,
\* thaijo 104-106 keeps the url's extension when there is one, the Drive
\* downloader 187 writes .pdf.
Ext(v, u) ==
    CASE u.kind = "drive" -> ".pdf"
      [] v = "nu" -> ".pdf"
      [] u.base[2] = "" -> ".pdf"
      [] OTHER -> u.base[2]

\* filepath = os.path.join(save_dir, f"{name}_{timestamp}{ext}"), the Drive
\* downloader's f"{file_id}_{timestamp}.pdf".
FilePath(v, u, clock) == <<u.base[1], Timestamp(clock), Ext(v, u)>>

\* ------------------------------------------------------ markdown link scan
\* A markdown link [label](url) is read token by token.  The tokens stand
\* for runs of characters; none holds "]" or ")", and ".pdf" occurs in a
\* text only as the token ".pdf".
LabelToks == {" ", "doc", ".pdf", ".PDF"}
UrlToks == {"https://", "x.test/doc", ".pdf", ".PDF", "?dl=1", " "}

\* The sequences over S of 1..n elements.
SeqsUpTo(S, n) == UNION {[1..k -> S] : k \in 1..n}

Links == [label : SeqsUpTo(LabelToks, MaxLabel), url : SeqsUpTo(UrlToks, MaxUrl)]

\* The text holds the case-sensitive ".pdf".
HasPdf(t) == \E i \in 1..Len(t) : t[i] = ".pdf"

\* str.strip()
RECURSIVE Strip(_)
Strip(t) ==
    IF t = <<>> THEN t
    ELSE IF Head(t) = " " THEN Strip(Tail(t))
    ELSE IF t[Len(t)] = " " THEN Strip(SubSeq(t, 1, Len(t) - 1))
    ELSE t

\* The second group of the pattern, (https?://[^\s\)]*\.pdf), followed by
\* [^\)]*\): the url must start with the scheme; the group ends with the
\* last ".pdf" that no white space parts from the scheme, and what follows
\* it is dropped.  <<>>: no match.
UrlGroup(u) ==
    LET ks == {k \in 2..Len(u) :
                 u[k] = ".pdf" /\ \A i \in 2..(k - 1) : u[i] # " "}
    IN  IF u[1] \in {"http://", "https://"} /\ ks # {}
        THEN SubSeq(u, 1, CHOOSE k \in ks : \A m \in ks : m <= k)
        ELSE <<>>

\* extract_pdf_links_with_label_check (nu 183-204) on a text that holds the
\* one link l: the first group [^\]]*\.pdf[^\]]* is the whole label, which
\* must hold ".pdf"; text is the label stripped.
extract_pdf_links_with_label_check(l) ==
    IF HasPdf(l.label) /\ UrlGroup(l.url) # <<>>
    THEN << [text |-> Strip(l.label), download_url |-> UrlGroup(l.url)] >>
    ELSE <<>>

VARIABLES
    variant,     \* which runner / fetcher this behaviour is about
    \* --- disk
    fileState,   \* the result file: "absent", "ok", or "corrupt" (it exists
                 \* and does not parse)
    file,        \* the mapping the result file holds
    \* --- the batch runner
    run,         \* runs started so far
    pc,          \* "idle", "loop", "resolve", "download", "record"; "crashed":
                 \* the process died of an exception nothing caught
    idx,         \* position in the target list (1-based)
    results,     \* the in-memory dict results
    nav,         \* thaijo: attempt of get_download_url_from_fetch
    pdf_download_link,  \* thaijo local
    saved_filepath,     \* thaijo local
    links_to_download,  \* nu local (crawl_and_download_pdf)
    downloaded_files,   \* nu local
    cand,               \* nu: position in links_to_download
    tried,       \* nu: the calls of the fetcher for this target, in order:
                 \* <<candidate, what the call gave>>
    caught,      \* the processing of the target just handled was ended by an
                 \* exception that was caught
    \* --- history of the runs
    arrived,     \* how the top of the loop was reached: "start", "skip" or
                 \* "save" (the target before was recorded and saved)
    abortedAt,   \* K > 0: the latest run was aborted right after target K
                 \* was persisted
    seen,        \* per target, what its page last showed ("unknown" when
                 \* that is not followed)
    calm,        \* "run1": the remote side showed no change since this run
                 \* started; "done": that run ran to its end, still none;
                 \* "run2": this is the run after it, still none; else "no"
    everRecorded, \* keys some save has written, or the first file held
    \* --- one call of download_pdf_with_retries (SpecFetch)
    fpc,         \* "idle" (no call), "loop" (in the attempt loop), "returned"
    attempt,     \* the loop variable attempt
    fret,        \* the value returned ("pending" before the return,
                 \* "raised" when the call ended with an exception)
    requests,    \* number of GET requests issued by this call
    sleeps,      \* number of backoff sleeps of this call
    lastResp,    \* what the latest attempt met ("none" before the first,
                 \* "interrupt": a 200 whose streaming was interrupted)
    all429,      \* every attempt so far met a 429
    dir,         \* files this call left in save_dir: [at, content]
    slept,       \* seconds the latest attempt slept (0: it did not sleep)
    sleptBefore, \* seconds the attempt before it slept
    session,     \* the requests.Session of the call: "none", "open", "closed"
    \* --- one call of extract_pdf_links_with_label_check (SpecScan)
    scan,        \* [in: the link of the text, out: the list returned,
                 \*  done: the call was made]
    \* --- the end of the run
    report,      \* [over: the loop of this run ended, shown: a summary was
                 \*  logged, processed, found: the counts it gave]
    \* --- the download directory (SpecNames)
    fs,          \* [clock: the second the wall clock shows, saved: the
                 \*  downloads written so far, each [url, path]]
    \* --- the logging of the process (SpecLog)
    log,         \* [imported: utils.logger was imported, level and handlers
                 \*  of the logger "utils.logger", called: the packages that
                 \*  called setup_logging, emitted: the records logged,
                 \*  files: the records each log file holds]
    \* --- the calls of get_download_url_from_fetch on the shared page
    pdf_urls,    \* the list of the current call: the responses its handler
                 \*  captured, each [url, call, att: when it was captured]
    call,        \* the number of the current call
    picked,      \* the entry of pdf_urls the call returned, or NoEntry
    stale,       \* an entry captured before the current attempt was in
                 \*  pdf_urls when the attempt began
    \* --- utils.download_pdfs (SpecUtil)
    util         \* [call: the number of the call, pos: the index of the url
                 \*  the loop is at, folder: what the file of each name
                 \*  holds, did: what each call did with each url]

fvars ==
    <<fpc, attempt, fret, requests, sleeps, lastResp, all429, dir, slept,
      sleptBefore, session>>

locals ==
    <<nav, pdf_download_link, saved_filepath, links_to_download,
      downloaded_files, cand, tried>>

history == <<arrived, abortedAt, seen, calm, everRecorded>>

rvars == <<fileState, file, run, pc, idx, results, locals, caught, history>>

svars == <<pdf_urls, call, picked, stale>>

side == <<fs, log, svars, util>>

aux == <<scan, report, side>>

vars == <<variant, rvars, fvars, aux>>

\* No call of the link scan.
NoScan == [in |-> [label |-> <<>>, url |-> <<>>], out |-> <<>>, done |-> FALSE]

\* No run has ended.
NoReport == [over |-> FALSE, shown |-> FALSE, processed |-> 0, found |-> 0]

\* No download written.
NoFiles == [clock |-> 0, saved |-> <<>>]

\* No entry of pdf_urls.
NoEntry == [url |-> <<>>, call |-> 0, att |-> 0]

\* The state of a call of the resolver at line 37: pdf_urls = [].
SniffFresh(c) ==
    /\ pdf_urls = <<>>
    /\ call = c
    /\ picked = NoEntry
    /\ stale = FALSE

SideIdle == fs = NoFiles /\ log = NoLog /\ SniffFresh(1) /\ util = NoUtil

AuxIdle == scan = NoScan /\ report = NoReport /\ SideIdle

Unseen == [t \in Targets |-> "unknown"]

\* The locals of the loop body before it assigns them.
LocalsFresh ==
    /\ nav = 0
    /\ pdf_download_link = None
    /\ saved_filepath = None
    /\ links_to_download = <<>>
    /\ downloaded_files = <<>>
    /\ cand = 1
    /\ tried = <<>>

\* No process: what is in memory is gone.
ProcessGone ==
    /\ pc = "idle"
    /\ idx = 1
    /\ results = EmptyMap
    /\ arrived = "start"
    /\ caught = FALSE
    /\ LocalsFresh

\* The loop body's locals are assigned anew (thaijo 228-229, nu 242-251).
\* LocalsReset that leaves the link and the path of the target before.
LocalsKeepResult ==
    /\ nav' = 0
    /\ pdf_download_link' = pdf_download_link
    /\ saved_filepath' = saved_filepath
    /\ links_to_download' = <<>>
    /\ downloaded_files' = <<>>
    /\ cand' = 1
    /\ tried' = <<>>

LocalsReset ==
    /\ nav' = 0
    /\ pdf_download_link' = None
    /\ saved_filepath' = None
    /\ links_to_download' = <<>>
    /\ downloaded_files' = <<>>
    /\ cand' = 1
    /\ tried' = <<>>

\* The process ends: what it held in memory is gone.
ProcessExit ==
    /\ pc' = "idle"
    /\ idx' = 1
    /\ results' = EmptyMap
    /\ arrived' = "start"
    /\ caught' = FALSE
    /\ LocalsReset

\* The process dies of an exception nothing caught.
ProcessCrash ==
    /\ pc' = "crashed"
    /\ idx' = 1
    /\ results' = EmptyMap
    /\ arrived' = "start"
    /\ caught' = FALSE
    /\ LocalsReset
    /\ abortedAt' = 0
    /\ calm' = "no"
    /\ seen' = Unseen

\* The runner at rest: what SpecFetch holds fixed.
RunnerIdle ==
    /\ fileState = "absent"
    /\ file = EmptyMap
    /\ run = 0
    /\ ProcessGone
    /\ abortedAt = 0
    /\ seen = Unseen
    /\ calm = "no"
    /\ everRecorded = {}

\* No call of the fetcher in progress: what Spec holds fixed.
FetchIdle ==
    /\ fpc = "idle"
    /\ attempt = 0
    /\ fret = "pending"
    /\ requests = 0
    /\ sleeps = 0
    /\ lastResp = "none"
    /\ all429 = TRUE
    /\ dir = {}
    /\ slept = 0
    /\ sleptBefore = 0
    /\ session = "none"

\* ------------------------------------------------------------- SpecFetch
InitFetch ==
    /\ variant \in Variants
    /\ RunnerIdle
    /\ AuxIdle
    /\ fpc = "loop"
    /\ attempt = 0
    /\ fret = "pending"
    /\ requests = 0
    /\ sleeps = 0
    /\ lastResp = "none"
    /\ all429 = TRUE
    /\ dir = {}
    /\ slept = 0
    /\ sleptBefore = 0
    /\ session = OpenSession(variant)

\* One pass through the loop body: the GET, the classification of what came
\* back, the write to disk, the backoff sleep.
FetchAttempt ==
    /\ fpc = "loop"
    /\ MoreAttempts(attempt)
    /\ \E resp \in Resp :
         LET r == Attempt(variant, resp) IN
         /\ requests' = requests + 1
         /\ lastResp' = resp
         /\ all429' = (all429 /\ resp = "s429")
         /\ sleeps' = IF r.sleep = "none" THEN sleeps ELSE sleeps + 1
         /\ \E j \in Jitter(r.sleep) :
               slept' = IF r.sleep = "none" THEN 0 ELSE Backoff(attempt, j)
         /\ sleptBefore' = slept
         /\ dir' = IF r.left = "none" THEN dir
                   ELSE dir \cup {[at |-> attempt, content |-> r.left]}
         /\ IF r.ctl # "continue"
            THEN /\ fpc' = "returned"
                 /\ fret' = r.ret
                 /\ attempt' = attempt
                 /\ session' = Finally(variant, r.ctl, session)
            ELSE /\ fpc' = "loop"
                 /\ fret' = fret
                 /\ attempt' = attempt + 1
                 /\ session' = session
    /\ UNCHANGED <<variant, aux, rvars>>

\* The loop ran out: the finally clause, [GIVE UP], return None.
FetchGiveUp ==
    /\ fpc = "loop"
    /\ ~MoreAttempts(attempt)
    /\ fpc' = "returned"
    /\ fret' = "None"
    /\ session' = Finally(variant, "exhaust", session)
    /\ UNCHANGED <<variant, aux, rvars, attempt, requests, sleeps, lastResp,
                   all429, dir, slept, sleptBefore>>

NextFetch == FetchAttempt \/ FetchGiveUp

SpecFetch == InitFetch /\ [][NextFetch]_vars

\* --------------------------------------------------------------- SpecDrive
\* The url download_pdf_from_google_drive is called with.
DriveUrl == <<get_download_url_from_google_drive("drive_id")>>

\* No GET yet.
NoGet == [first |-> "init", r1 |-> "none", r2 |-> "none", urls |-> <<>>]

\* What one pass can meet: r1 is what the first GET met and first what its
\* response carries ("na" when the GET raised), r2 what the confirmed GET
\* met ("na" when none was sent).
Gets ==
    {g \in [first : DriveFirst \cup {"na"}, r1 : Resp, r2 : Resp \cup {"na"}] :
        /\ (g.first = "na") <=> (g.r1 \in Raising)
        /\ (g.r2 # "na") <=> (g.first = "token")}

\* One call of download_pdf_from_google_drive, one pass through its loop a
\* step, on the variables of a call of the fetcher: requests counts the
\* GETs, lastResp is what the latest pass met, dir the files it left.  The
\* session is opened at line 149 and never closed.
InitDrive ==
    /\ variant = "thaijo"
    /\ RunnerIdle
    /\ AuxIdle
    /\ fpc = "loop"
    /\ attempt = 0
    /\ fret = "pending"
    /\ requests = 0
    /\ sleeps = 0
    /\ lastResp = NoGet
    /\ all429 = TRUE
    /\ dir = {}
    /\ slept = 0
    /\ sleptBefore = 0
    /\ session = "open"

\* One pass through the loop body (151-199).
DriveStep ==
    /\ fpc = "loop"
    /\ MoreAttempts(attempt)
    /\ \E g \in Gets :
         LET urls == DriveUrls(DriveUrl, g.first, g.r1)
             c == Classified(g.first, g.r1, g.r2)
             r == DriveAttempt(g.first, c)
         IN  /\ requests' = requests + Len(urls)
             /\ lastResp' = [first |-> g.first, r1 |-> g.r1, r2 |-> g.r2,
                             urls |-> urls]
             /\ all429' = (all429 /\ c = "s429")
             /\ sleeps' = IF r.sleep = "none" THEN sleeps ELSE sleeps + 1
             /\ \E j \in Jitter(r.sleep) :
                   slept' = IF r.sleep = "none" THEN 0 ELSE Backoff(attempt, j)
             /\ dir' = IF r.left = "none" THEN dir
                       ELSE dir \cup {[at |-> attempt, content |-> r.left]}
             /\ IF r.ctl # "continue"
                THEN /\ fpc' = "returned"
                     /\ fret' = r.ret
                     /\ attempt' = attempt
                ELSE /\ fpc' = "loop"
                     /\ fret' = fret
                     /\ attempt' = attempt + 1
    /\ UNCHANGED <<variant, aux, rvars, sleptBefore, session>>

\* The loop ran out: line 202 reads file_id, which is bound only if a pass
\* reached line 186; then return None.
DriveGiveUp ==
    /\ fpc = "loop"
    /\ ~MoreAttempts(attempt)
    /\ fpc' = "returned"
    /\ fret' = IF dir # {} THEN "None" ELSE "raised"
    /\ UNCHANGED <<variant, aux, rvars, attempt, requests, sleeps, lastResp,
                   all429, dir, slept, sleptBefore, session>>

NextDrive == DriveStep \/ DriveGiveUp

SpecDrive == InitDrive /\ [][NextDrive]_vars

\* --------------------------------------------------------------- SpecSniff
\* One call of get_download_url_from_fetch, one navigation a step.  The call
\* uses the variables of a call of the fetcher: attempt is its loop variable,
\* requests counts the navigations, lastResp is what the latest navigation
\* met, fret what the call returned.
InitSniff ==
    /\ variant = "thaijo"
    /\ RunnerIdle
    /\ AuxIdle
    /\ fpc = "loop"
    /\ attempt = 0
    /\ fret = [kind |-> "pending", url |-> <<>>]
    /\ requests = 0
    /\ sleeps = 0
    /\ lastResp = NoNav
    /\ all429 = TRUE
    /\ dir = {}
    /\ slept = 0
    /\ sleptBefore = 0
    /\ session = "none"

\* One pass through the loop body (47-90): pdf_urls.clear(), page.goto, the
\* wait, the test of pdf_urls, the anchors, the backoff.  The passes that end
\* the last attempt without a return fall off the loop to return None (92).
SniffStep ==
    /\ fpc = "loop"
    /\ MoreAttempts(attempt)
    /\ \E n \in Navs :
         LET got == Capture(Clear(pdf_urls), n.pdfs, call, attempt)
             met == [n EXCEPT !.pdfs = [i \in 1..Len(got) |-> got[i].url]]
             p == PageKind(met)
             r == SniffAttempt(p, attempt)
             z == SniffSleep(p, attempt)
         IN  /\ pdf_urls' = got
             /\ picked' = IF r = "pdf_url" THEN got[1] ELSE NoEntry
             /\ stale' = (stale \/ pdf_urls # <<>>)
             /\ requests' = requests + 1
             /\ lastResp' = n
             /\ all429' = (all429 /\ p = "s429")
             /\ sleeps' = IF z = "none" THEN sleeps ELSE sleeps + 1
             /\ \E j \in Jitter(z) :
                   slept' = IF z = "none" THEN 0 ELSE Backoff(attempt, j)
             /\ sleptBefore' = slept
             /\ IF r = "retry"
                THEN /\ fpc' = "loop"
                     /\ attempt' = attempt + 1
                     /\ fret' = fret
                ELSE /\ fpc' = "returned"
                     /\ attempt' = attempt
                     /\ fret' = SniffValue(met, r)
    /\ UNCHANGED <<variant, scan, report, fs, log, util, call, rvars, dir, session>>

SpecSniff == InitSniff /\ [][SniffStep]_vars

\* ----------------------------------------------------------- SpecSniffPage
\* The calls the runner makes of the resolver, one target after the other
\* on the one page it opened (thaijo 214, 243): each call makes its own list
\* and registers its own handler (37-44).  The handlers of the calls before
\* stay registered and append to their own lists, which nothing reads.
SniffCall ==
    /\ fpc = "returned"
    /\ call < MaxCalls
    /\ pdf_urls' = <<>>
    /\ call' = call + 1
    /\ picked' = NoEntry
    /\ stale' = FALSE
    /\ fpc' = "loop"
    /\ attempt' = 0
    /\ fret' = [kind |-> "pending", url |-> <<>>]
    /\ requests' = 0
    /\ sleeps' = 0
    /\ lastResp' = NoNav
    /\ all429' = TRUE
    /\ slept' = 0
    /\ sleptBefore' = 0
    /\ UNCHANGED <<variant, scan, report, fs, log, util, rvars, dir, session>>

NextSniffPage == SniffStep \/ SniffCall

SpecSniffPage == InitSniff /\ [][NextSniffPage]_vars

\* --------------------------------------------------------------- SpecNames
\* The files one run writes: each step is one download that got a 200 and
\* opened its file (nu 102, thaijo 110 and 188), or a second of the clock.
\* Nothing makes the program wait between two downloads.
InitNames ==
    /\ variant \in Variants
    /\ RunnerIdle
    /\ FetchIdle
    /\ AuxIdle

Tick ==
    /\ fs.clock < MaxClock
    /\ fs' = [fs EXCEPT !.clock = @ + 1]
    /\ UNCHANGED <<variant, scan, report, log, svars, util, rvars, fvars>>

WriteFile ==
    /\ Len(fs.saved) < MaxSaves
    /\ \E u \in DownloadUrls(variant) :
         fs' = [fs EXCEPT !.saved =
                  Append(@, [url |-> u,
                             path |-> FilePath(variant, u, fs.clock)])]
    /\ UNCHANGED <<variant, scan, report, log, svars, util, rvars, fvars>>

NextNames == Tick \/ WriteFile

SpecNames == InitNames /\ [][NextNames]_vars

\* ----------------------------------------------------------------- SpecLog
\* One process: packages are imported in any order, and log through the
\* logger their setup_logging call returned.
InitLog ==
    /\ variant \in Variants
    /\ RunnerIdle
    /\ FetchIdle
    /\ AuxIdle

\* import of a package: its import of utils.logger, then its call of
\* setup_logging with its own path and logging.DEBUG.
ImportPackage ==
    /\ \E pkg \in Packages \ log.called :
         log' = [setup_logging(ImportLogger(log), LogFile(pkg), DEBUG)
                    EXCEPT !.called = @ \cup {pkg}]
    /\ UNCHANGED <<variant, scan, report, fs, svars, util, rvars, fvars>>

\* LOGGER.debug / info / error of a package that was imported.
LogRecord ==
    /\ Len(log.emitted) < MaxRecords
    /\ \E pkg \in log.called, lvl \in Levels :
         log' = [log EXCEPT
                   !.emitted = Append(@, [pkg |-> pkg, level |-> lvl]),
                   !.files = Handle(log, Len(log.emitted) + 1, lvl)]
    /\ UNCHANGED <<variant, scan, report, fs, svars, util, rvars, fvars>>

NextLog == ImportPackage \/ LogRecord

SpecLog == InitLog /\ [][NextLog]_vars

\* ---------------------------------------------------------------- SpecUtil
\* Calls of download_pdfs(urls, download_folder) with the same list and
\* folder, one url of the loop a step.
InitUtil ==
    /\ variant \in Variants
    /\ RunnerIdle
    /\ FetchIdle
    /\ AuxIdle

\* The loop body (61-87) for the url at pos: skipped when its file exists,
\* else requested; every exception is caught and the loop goes on.
UtilStep ==
    /\ util.pos <= Len(UtilUrls)
    /\ LET name == UtilFileName(UtilUrls[util.pos]) IN
         IF Exists(util.folder, name)
         THEN util' = [util EXCEPT !.pos = @ + 1,
                                   !.did[util.call][util.pos] = "skipped"]
         ELSE \E o \in UtilOutcomes :
                util' = [util EXCEPT
                           !.pos = @ + 1,
                           !.did[util.call][util.pos] = o,
                           !.folder[name] = UtilLeft(o, @)]
    /\ UNCHANGED <<variant, scan, report, fs, log, svars, rvars, fvars>>

\* The loop is over (89); download_pdfs is called again.
UtilCall ==
    /\ util.pos > Len(UtilUrls)
    /\ util.call < MaxUtilCalls
    /\ util' = [util EXCEPT !.call = @ + 1, !.pos = 1]
    /\ UNCHANGED <<variant, scan, report, fs, log, svars, rvars, fvars>>

NextUtil == UtilStep \/ UtilCall

SpecUtil == InitUtil /\ [][NextUtil]_vars

\* ---------------------------------------------------------------- SpecScan
\* One call of extract_pdf_links_with_label_check on a text with one link.
InitScan ==
    /\ variant = "nu"
    /\ RunnerIdle
    /\ FetchIdle
    /\ scan \in [in : Links, out : {<<>>}, done : {FALSE}]
    /\ report = NoReport
    /\ SideIdle

ScanStep ==
    /\ ~scan.done
    /\ scan' = [scan EXCEPT !.out = extract_pdf_links_with_label_check(scan.in),
                            !.done = TRUE]
    /\ UNCHANGED <<variant, report, side, rvars, fvars>>

SpecScan == InitScan /\ [][ScanStep]_vars

\* ------------------------------------------------------------ SpecFetchInt
\* One call of download_pdf_with_retries in a process that can be sent an
\* interrupt (SIGINT) while the body of a 200 response is streamed.

\* KeyboardInterrupt is raised inside the iter_content loop.  The with
\* statement closes the file with what was written so far; the except
\* clauses catch Exception and its subclasses, which KeyboardInterrupt is
\* not; nu's finally closes the session; the exception leaves the function,
\* and the runners do not catch it either.
\* (nu 108-117 and 155-177, thaijo 110-112 and 127)
FetchInterrupt ==
    /\ fpc = "loop"
    /\ MoreAttempts(attempt)
    /\ requests' = requests + 1
    /\ lastResp' = "interrupt"
    /\ all429' = FALSE
    /\ dir' = dir \cup {[at |-> attempt, content |-> "partial"]}
    /\ fpc' = "returned"
    /\ fret' = "raised"
    /\ slept' = 0
    /\ sleptBefore' = slept
    /\ session' = Finally(variant, "raise", session)
    /\ UNCHANGED <<variant, aux, rvars, attempt, sleeps>>

NextFetchInt == NextFetch \/ FetchInterrupt

SpecFetchInt == InitFetch /\ [][NextFetchInt]_vars

\* ------------------------------------------------------------------ Spec
\* A store an earlier run over another target list left behind.
OldRecord(v) ==
    IF v = "nu"
    THEN NuRecord(ExtraKey, <<"c1">>, << <<"c1", "file_full">> >>)
    ELSE ThaijoRecord("pdf_url", "file_full")

Init ==
    /\ variant \in Variants
    /\ \/ fileState = "absent" /\ file = EmptyMap
       \/ /\ fileState = "ok"
          /\ file = Put(EmptyMap, StrKey(ExtraKey), OldRecord(variant))
    /\ run = 0
    /\ ProcessGone
    /\ abortedAt = 0
    /\ seen = Unseen
    /\ calm = "no"
    /\ everRecorded = DOMAIN file
    /\ FetchIdle
    /\ AuxIdle

\* The page of target t shows p.  While the remote side is followed, a page
\* that shows something else than it showed before is a change of the remote
\* side.
Observe(t, p) ==
    IF calm = "no" THEN UNCHANGED <<seen, calm>>
    ELSE IF seen[t] \notin {"unknown", p}
         THEN seen' = Unseen /\ calm' = "no"
         ELSE seen' = [seen EXCEPT ![t] = p] /\ calm' = calm

\* The process starts: results = load_existing_results(), then the loop.
\* (nu main 283-287, thaijo fetch_and_download_pdfs_from_urls 206-216)
StartRun ==
    /\ pc \in {"idle", "crashed"}
    /\ run < MaxRuns
    /\ ~LoadRaises(fileState)
    /\ run' = run + 1
    /\ results' = load_existing_results(fileState, file)
    /\ idx' = 1
    /\ pc' = "loop"
    /\ arrived' = "start"
    /\ calm' = IF calm = "done" THEN "run2" ELSE "run1"
    /\ seen' = IF calm = "done" THEN seen ELSE Unseen
    /\ report' = NoReport
    /\ UNCHANGED <<variant, scan, side, fileState, file, locals, caught, abortedAt,
                   everRecorded, fvars>>

\* The skip branch of the loop body: log and continue.
\* (nu 292-295, thaijo 220-223)
LoopSkip ==
    /\ pc = "loop"
    /\ idx <= NumTargets
    /\ SkipTest(variant, results, idx)
    /\ idx' = idx + 1
    /\ arrived' = "skip"
    /\ caught' = FALSE
    /\ UNCHANGED <<variant, aux, fileState, file, run, pc, results, locals,
                   abortedAt, seen, calm, everRecorded, fvars>>

\* The target is not skipped: its processing starts.
\* (nu 298-299, thaijo 225-229)
LoopBegin ==
    /\ pc = "loop"
    /\ idx <= NumTargets
    /\ ~SkipTest(variant, results, idx)
    /\ pc' = "resolve"
    /\ caught' = FALSE
    /\ UNCHANGED <<variant, aux, fileState, file, run, idx, results, locals,
                   history, fvars>>

\* thaijo: one navigation of get_download_url_from_fetch (46-92); the call
\* returns a url (then the download follows, 247-250) or None (252).  An
\* exception of the navigation is caught inside the loop (84-90).
ThaijoNavigate ==
    /\ variant = "thaijo"
    /\ pc = "resolve"
    /\ ~InDrive(Url(idx))
    /\ \E p \in PageThaijo :
         /\ Observe(idx, p)
         /\ LET r == SniffAttempt(p, nav) IN
              IF r = "retry"
              THEN /\ nav' = nav + 1
                   /\ UNCHANGED <<pc, pdf_download_link, caught>>
              ELSE /\ pdf_download_link' = r
                   /\ pc' = IF r # None THEN "download" ELSE "record"
                   /\ caught' = (p = "exc")
                   /\ UNCHANGED nav
    /\ UNCHANGED <<variant, aux, fileState, file, run, idx, results,
                   saved_filepath, links_to_download, downloaded_files, cand,
                   tried, arrived, abortedAt, everRecorded, fvars>>

\* thaijo: the downloader called for link ended with out.  A returned path
\* is assigned to saved_filepath; an exception leaves saved_filepath as it
\* was, None since line 228, and is handled by the except clause around the
\* call.
ThaijoLand(link, out) ==
    IF out = "raised" /\ AfterRaise(variant) # "record"
    THEN ProcessCrash /\ UNCHANGED everRecorded
    ELSE /\ pdf_download_link' = link
         /\ saved_filepath' = IF out = "raised" THEN saved_filepath ELSE out
         /\ caught' = (out = "raised")
         /\ pc' = "record"
         /\ UNCHANGED <<idx, results, nav, links_to_download,
                        downloaded_files, cand, tried, history>>

\* thaijo line 250: saved_filepath = download_pdf_with_retries(...)
ThaijoDownload ==
    /\ variant = "thaijo"
    /\ pc = "download"
    /\ \E out \in FetchReturns("thaijo") : ThaijoLand(pdf_download_link, out)
    /\ UNCHANGED <<variant, aux, fileState, file, run, fvars>>

\* thaijo 231-241, a Google Drive url: the download url is built from the
\* file id, then download_pdf_from_google_drive is called.
ThaijoDrive ==
    /\ variant = "thaijo"
    /\ pc = "resolve"
    /\ InDrive(Url(idx))
    /\ LET link == get_download_url_from_google_drive(Url(idx)) IN
         IF link # None
         THEN \E out \in DriveReturns : ThaijoLand(link, out)
         ELSE ThaijoLand(link, None)
    /\ UNCHANGED <<variant, aux, fileState, file, run, fvars>>

\* nu, crawl_and_download_pdf 242-248: crawl the page, extract the links.
NuCrawl ==
    /\ variant = "nu"
    /\ pc = "resolve"
    /\ \E p \in PageNu :
         /\ Observe(idx, p)
         /\ links_to_download' = NuLinks(p)
         /\ caught' = (p = "exc")
    /\ pc' = IF links_to_download' # <<>> THEN "download" ELSE "record"
    /\ UNCHANGED <<variant, aux, fileState, file, run, idx, results, nav,
                   pdf_download_link, saved_filepath, downloaded_files, cand,
                   tried, arrived, abortedAt, everRecorded, fvars>>

\* nu, crawl_and_download_pdf 252-269: one candidate of links_to_download.
\* A path returned is appended to downloaded_files (257-262); on None (264)
\* and on an exception (267-269) the loop goes on.
NuDownload ==
    /\ variant = "nu"
    /\ pc = "download"
    /\ \E out \in FetchReturns("nu") :
         /\ downloaded_files' =
               IF out \notin {None, "raised"}
               THEN Append(downloaded_files, <<links_to_download[cand], out>>)
               ELSE downloaded_files
         /\ tried' = Append(tried, <<links_to_download[cand], out>>)
         /\ IF MoreCandidates(cand, links_to_download, out)
            THEN cand' = cand + 1 /\ pc' = pc
            ELSE cand' = cand /\ pc' = "record"
    /\ UNCHANGED <<variant, aux, fileState, file, run, idx, results, nav,
                   pdf_download_link, saved_filepath, links_to_download,
                   caught, history, fvars>>

\* A target is being processed.
Working == pc \in {"resolve", "download", "record"}

\* The key and the record the loop body writes for the current target.
CurrentKey == IF variant = "nu" THEN IntKey(idx) ELSE StrKey(idx)
CurrentRecord ==
    IF variant = "nu"
    THEN NuRecord(idx, links_to_download, downloaded_files)
    ELSE ThaijoRecord(pdf_download_link, saved_filepath)

\* SaveResults that writes the file only when the new record is a success.
SaveOnSuccess(d) ==
    IF IsSuccess(variant, d[CurrentKey])
    THEN fileState' = "ok" /\ file' = Dump(d)
    ELSE UNCHANGED <<fileState, file>>

\* save_results(results) / save_results_to_file(results): the file now holds
\* the dump of the whole mapping.
SaveResults(d) ==
    /\ fileState' = "ok"
    /\ file' = Dump(d)

\* RecordAndSave that goes on to the next target with the record in memory
\* only, the save left for later.
RecordAndMoveOn ==
    /\ pc = "record"
    /\ results' = Put(results, CurrentKey, CurrentRecord)
    /\ idx' = idx + 1
    /\ pc' = "loop"
    /\ arrived' = "save"
    /\ LocalsReset
    /\ UNCHANGED <<variant, aux, fileState, file, everRecorded, run, caught,
                   abortedAt, seen, calm, fvars>>

\* results[key] = record; save; next target.  The locals are assigned anew
\* before the next target reads them.
\* (nu 301-312, thaijo 257-261)
RecordAndSave ==
    /\ pc = "record"
    /\ results' = Put(results, CurrentKey, CurrentRecord)
    /\ SaveResults(results')
    /\ everRecorded' = everRecorded \cup DOMAIN file'
    /\ idx' = idx + 1
    /\ pc' = "loop"
    /\ arrived' = "save"
    /\ LocalsReset
    /\ UNCHANGED <<variant, aux, run, caught, abortedAt, seen, calm, fvars>>

\* The loop is over: the summary, and the run ends.
Finish ==
    /\ pc = "loop"
    /\ idx > NumTargets
    /\ report' = Summary(variant, results)
    /\ ProcessExit
    /\ abortedAt' = 0
    /\ calm' = IF calm \in {"run1", "run2"} THEN "done" ELSE "no"
    /\ UNCHANGED <<variant, scan, side, fileState, file, run, seen, everRecorded, fvars>>

\* The process is killed between two targets.
Abort ==
    /\ pc = "loop"
    /\ idx <= NumTargets
    /\ ProcessExit
    /\ abortedAt' = IF arrived = "save" THEN idx - 1 ELSE 0
    /\ calm' = "no"
    /\ seen' = Unseen
    /\ UNCHANGED <<variant, aux, fileState, file, run, everRecorded, fvars>>

Next ==
    \/ StartRun
    \/ LoopSkip
    \/ LoopBegin
    \/ ThaijoNavigate
    \/ ThaijoDownload
    \/ ThaijoDrive
    \/ NuCrawl
    \/ NuDownload
    \/ RecordAndSave
    \/ Finish
    \/ Abort

Spec == Init /\ [][Next]_vars

\* --------------------------------------------------------------- SpecLive
\* The batch runner in a process that keeps running: every call it makes
\* returns or times out, so a step of the loop that can be taken is taken.
\* Starting a run and killing it are the operator's.
ProgramStep ==
    \/ LoopSkip
    \/ LoopBegin
    \/ ThaijoNavigate
    \/ ThaijoDownload
    \/ ThaijoDrive
    \/ NuCrawl
    \/ NuDownload
    \/ RecordAndSave
    \/ Finish

SpecLive == Init /\ [][Next]_vars /\ WF_vars(ProgramStep)

\* --------------------------------------------------------------- SpecKill
\* The batch runner with a process that can be killed at any point, the
\* middle of a save included.

\* The process starts and json.load raises: the run is over before the loop.
StartRunLoadError ==
    /\ pc \in {"idle", "crashed"}
    /\ run < MaxRuns
    /\ LoadRaises(fileState)
    /\ run' = run + 1
    /\ ProcessCrash
    /\ UNCHANGED <<variant, aux, fileState, file, everRecorded, fvars>>

\* The process is killed while a target is resolved or downloaded, or before
\* the save opens the file.
Kill ==
    /\ Working
    /\ ProcessExit
    /\ abortedAt' = 0
    /\ calm' = "no"
    /\ seen' = Unseen
    /\ UNCHANGED <<variant, aux, fileState, file, run, everRecorded, fvars>>

\* The process is killed inside save_results: open(RESULT_JSON, "w") has
\* truncated the file and json.dump has not written the whole of it.
\* (nu 25-27, thaijo 31-33)
KillInSave ==
    /\ pc = "record"
    /\ fileState' = "corrupt"
    /\ file' = EmptyMap
    /\ ProcessExit
    /\ abortedAt' = 0
    /\ calm' = "no"
    /\ seen' = Unseen
    /\ UNCHANGED <<variant, aux, run, everRecorded, fvars>>

NextKill ==
    \/ Next
    \/ StartRunLoadError
    \/ Kill
    \/ KillInSave

SpecKill == Init /\ [][NextKill]_vars

\* ================================================================ claims

\* The record the store in memory holds for target i (under its string key:
\* the key a loaded record has).
Loaded(i) == results[StrKey(i)]
IsLoaded(i) == StrKey(i) \in DOMAIN results

\* The target being worked on has no success record in the loaded store.
C1_NoWorkOnSuccess ==
    Working => ~(IsLoaded(idx) /\ IsSuccess(variant, Loaded(idx)))
\* C1  Idempotent resume.  In a run that follows a run that ran to its end,
\* with a remote side that showed no change since that first run started, no
\* step changes the result file, so the store after the second run is the
\* store after the first; and no run navigates to, or downloads for, a target
\* whose loaded record is a success.
C1_IdempotentResume ==
    /\ []C1_NoWorkOnSuccess
    /\ [][(calm = "run2" /\ calm' \in {"run2", "done"})
            => (file' = file /\ fileState' = fileState)]_vars
\* A second run under an unchanged remote side has processed a target again
\* and saved, with a success in the store.
C1_Witness ==
    /\ calm = "run2"
    /\ pc = "loop"
    /\ arrived = "save"
    /\ \E t \in Targets :
         StrKey(t) \in DOMAIN file /\ IsSuccess(variant, file[StrKey(t)])

\* C2 as stated  Crash resume: after an abort right after target K was
\* persisted, the fresh run does no work for the targets 1..K, whatever their
\* outcome was.
C2_NoWorkUpToK == (abortedAt > 0 /\ Working) => idx > abortedAt
\* A step keeps the stored record of target t when that record is one the
\* runner skips.
C2_Kept(t) ==
    (StrKey(t) \in DOMAIN file
        /\ (variant = "nu" \/ file[StrKey(t)].download_link # None))
    => (StrKey(t) \in DOMAIN file' /\ file'[StrKey(t)] = file[StrKey(t)])
\* Among 1..K the fresh run works only on thaijo targets recorded without a
\* download link.
C2_ResumeWork ==
    (abortedAt > 0 /\ Working /\ idx <= abortedAt)
    => (variant = "thaijo" /\ IsLoaded(idx) /\ IsNoLink(variant, Loaded(idx)))
\* Among 1..K the fresh run skips no thaijo target recorded without a
\* download link.
C2_ResumeSkip ==
    (abortedAt > 0 /\ pc = "loop" /\ arrived = "skip" /\ idx - 1 <= abortedAt)
    => (variant = "nu" \/ Loaded(idx - 1).download_link # None)
\* C2 as amended  After an abort right after target K was persisted, the
\* fresh run works on a target among 1..K only in the thaijo runner and only
\* when the stored record of that target has no download link, and it skips
\* no such target; every record among 1..K that the runner skips (any record
\* in nu, a record with a download link in thaijo) is left as it is by every
\* step.
C2_CrashResume ==
    /\ []C2_ResumeWork
    /\ []C2_ResumeSkip
    /\ [][abortedAt > 0 => \A t \in 1..abortedAt : C2_Kept(t)]_vars
\* The fresh run has skipped 1..K and starts on K+1.
C2_Witness ==
    /\ abortedAt > 0
    /\ run = 2
    /\ pc = "resolve"
    /\ arrived = "skip"
    /\ idx = abortedAt + 1

\* C3  A target whose stored record is download_failed (a link, no file) is
\* not skipped: whenever the loop has just skipped a target, that target's
\* record is not download_failed.
C3_DownloadFailedNotSkipped ==
    (pc = "loop" /\ arrived = "skip")
    => ~IsDownloadFailed(variant, Loaded(idx - 1))

\* C4  A target whose stored record is no_link_found (no link, no file) is
\* not skipped: whenever the loop has just skipped a target, that target's
\* record is not no_link_found.
C4_NoLinkNotSkipped ==
    (pc = "loop" /\ arrived = "skip") => ~IsNoLink(variant, Loaded(idx - 1))

\* C5  The keys of the persisted store only grow: every key that the first
\* file held or that some save wrote is in the result file, in every state of
\* every sequence of runs and aborts.
C5_KeysOnlyGrow ==
    /\ everRecorded \subseteq DOMAIN file
    /\ everRecorded # {} => fileState = "ok"
\* A run that resumed after an abort has saved, and the file holds the key of
\* the other list together with every target's key.
C5_Witness ==
    /\ run = 2
    /\ abortedAt > 0
    /\ arrived = "save"
    /\ StrKey(ExtraKey) \in DOMAIN file
    /\ \A t \in Targets : StrKey(t) \in DOMAIN file

\* The file and the mapping in memory hold the same for target i.
C6_SameRecord(i) ==
    LET d == Dump(results)
        f == load_existing_results(fileState, file)
    IN  /\ StrKey(i) \in DOMAIN d <=> StrKey(i) \in DOMAIN f
        /\ StrKey(i) \in DOMAIN d => d[StrKey(i)] = f[StrKey(i)]
\* C6  During a run the result file holds the dump of the mapping in memory
\* for every key but that of the target being processed, and after a save for
\* every key: the mapping is written after every processed target, success or
\* failure, before the next target starts.
C6_SavedAfterEveryTarget ==
    pc # "idle" =>
        /\ \A i \in 1..ExtraKey : i # idx => C6_SameRecord(i)
        /\ arrived = "save" => file = Dump(results)
\* The next target is being worked on after a failure was recorded.
C6_Witness ==
    /\ Working
    /\ idx > 1
    /\ arrived = "save"
    /\ ~IsSuccess(variant, file[StrKey(idx - 1)])

\* The files record r names, each by what it held when it was written.
C7_NamedFiles(r) ==
    IF variant = "nu"
    THEN {n[2] : n \in {r.downloaded_filename[j] :
                          j \in 1..Len(r.downloaded_filename)}}
    ELSE {r.filename} \ {None}
\* C7  A persisted record names a saved file only if the file had a size
\* greater than zero when it was written: no record names a file written
\* from an empty 200 body.
C7_RecordNamesNonEmptyFile ==
    \A k \in DOMAIN file : "file_empty" \notin C7_NamedFiles(file[k])

\* C8  No partial files survive a failed fetch: when the fetcher has returned
\* None, save_dir holds no zero-byte or truncated file that this call
\* created.
C8_NoPartialFiles ==
    (fpc = "returned" /\ fret = None)
    => \A f \in dir : f.content \notin {"empty", "partial"}

\* C9  Terminal codes short-circuit: once an attempt met a 403 or a 404 the
\* fetcher has returned None; a 404 on the first attempt means one request
\* and no sleep.
C9_TerminalShortCircuit ==
    /\ lastResp \in {"s403", "s404"} => (fpc = "returned" /\ fret = None)
    /\ (lastResp = "s404" /\ attempt = 0) => (requests = 1 /\ sleeps = 0)
\* The first attempt met a 404 and the call has returned.
C9_Witness ==
    /\ lastResp = "s404"
    /\ attempt = 0
    /\ fpc = "returned"
    /\ requests = 1

\* C10  Attempt ceiling: the fetcher never issues more than max_retries
\* requests, and when every response was a 429 it returns, with None, after
\* max_retries requests and not before.
C10_AttemptCeiling ==
    /\ requests <= max_retries
    /\ (all429 /\ fpc = "returned")
       => (requests = max_retries /\ fret = None)
\* Every attempt met a 429 and the call has returned.
C10_Witness ==
    /\ all429
    /\ fpc = "returned"
    /\ requests = max_retries

\* ------------------------------------------------------------------- C11
\* The whole of C11 as stated: in a run of 429 responses the delay slept
\* before the Nth retry lies between 2^(N-1)+1 and 2^(N-1)+5 seconds, and
\* each delay is longer than the one before it.
C11_DelaysGrow ==
    (all429 /\ attempt >= 1) =>
        /\ slept >= 2^(attempt - 1) + 1
        /\ slept <= 2^(attempt - 1) + 5
        /\ (attempt >= 2 => slept > sleptBefore)

\* C11, amended: in a run of 429 responses the delay slept before the Nth
\* retry lies between 2^(N-1)+1 and 2^(N-1)+5 seconds, so it is at least
\* 2^(N-1); the bounds double, and from the 4th retry on a delay is never
\* shorter than the one before it.  (The first three delays can shrink.)
C11_BackoffBound ==
    (all429 /\ attempt >= 1) =>
        /\ slept >= 2^(attempt - 1) + 1
        /\ slept <= 2^(attempt - 1) + 5
        /\ (attempt >= 4 => slept >= sleptBefore)

\* Two retries after 429s, the second delay shorter than the first.
C11_Witness ==
    all429 /\ attempt = 2 /\ slept < sleptBefore

\* ------------------------------------------------------------------- C12
\* The transient failures of an attempt: 429, a status of 500 or more, another
\* status that is not 200, 403 or 404, a timeout, a connection error,
\* another transport exception.
Transient == {"s429", "s500", "sOther", "timeout", "connerr", "reqexc"}

\* C12: in nu's fetcher an attempt that ends in a transient failure uses up
\* one attempt, is followed by a backoff sleep, and does not end the fetch:
\* the fetch is over after it only when max_retries attempts were made, and
\* then with None.
C12_TransientRetried ==
    (variant = "nu" /\ lastResp \in Transient) =>
        /\ requests = attempt
        /\ slept > 0
        /\ sleeps > 0
        /\ (fpc = "returned" => (attempt = max_retries /\ fret = None))

\* A status of 500 or more on the last attempt of the budget.
C12_Witness ==
    /\ variant = "nu"
    /\ lastResp = "s500"
    /\ attempt = max_retries
    /\ fpc = "returned"

\* ------------------------------------------------------------------- C13
\* C13: in nu's fetcher, when the file a 200 response was streamed to has
\* size zero, the file is removed, the attempt is used up without a return,
\* and the fetch is over after it only when the budget is spent, with None;
\* the path of an empty file is never returned.
C13_EmptyFileRetried ==
    variant = "nu" =>
        /\ fret # "file_empty"
        /\ lastResp = "empty200" =>
              /\ requests = attempt
              /\ ~\E f \in dir : f.at = attempt - 1
              /\ (fpc = "returned" => (attempt = max_retries /\ fret = None))

\* An empty body on the first attempt, the loop going on.
C13_Witness ==
    /\ variant = "nu"
    /\ lastResp = "empty200"
    /\ attempt = 1
    /\ fpc = "loop"

\* ------------------------------------------------------------------- C14
\* C14: a call of download_pdf_with_retries ends with a return, never with
\* an exception, and when no attempt of it saved a file it returns None.
C14_NeverRaises ==
    fpc = "returned" =>
        /\ fret \in {None, "file_full", "file_empty"}
        /\ (~\E f \in dir : f.content \in {"full", "empty"}) => fret = None

\* The budget spent, the last attempt having raised an exception that is
\* not a transport error.
C14_Witness ==
    /\ fpc = "returned"
    /\ attempt = max_retries
    /\ lastResp = "exc"
    /\ fret = None

\* ------------------------------------------------------------------- C15
\* The record persisted for the target before idx.
Persisted == file[StrKey(idx - 1)]

\* C15: an exception that ends the resolving or the downloading of a target
\* does not end the run: it is caught, the record built for the target is a
\* failure, that record is in memory and in the file when the loop comes to
\* the next target; the process dies of an exception only when the load of
\* the store raised.
C15_ExceptionNeverAborts ==
    /\ pc = "crashed" => fileState = "corrupt"
    /\ caught => pc \in {"record", "loop"}
    /\ (caught /\ pc = "record") => ~IsSuccess(variant, CurrentRecord)
    /\ (caught /\ pc = "loop") =>
          /\ arrived = "save"
          /\ fileState = "ok"
          /\ StrKey(idx - 1) \in DOMAIN file
          /\ ~IsSuccess(variant, Persisted)
          /\ Dump(results)[StrKey(idx - 1)] = Persisted

\* The Drive downloader raised for the last target of the list; its record,
\* with the link and no file, is saved and the loop is past it.
C15_Witness ==
    /\ variant = "thaijo"
    /\ caught
    /\ pc = "loop"
    /\ idx = NumTargets + 1
    /\ Persisted = ThaijoRecord("drive_url", None)

\* ------------------------------------------------------------------- C16
\* The loop body resolved a link for the target and no fetch saved a file.
LinkButNoFile ==
    IF variant = "nu"
    THEN links_to_download # <<>> /\ downloaded_files = <<>>
    ELSE pdf_download_link # None /\ saved_filepath = None

\* C16: when a link was resolved for a target and every fetch of it failed,
\* the record written for the target keeps the resolved url and names no
\* file, which tells it from the record of a target with no link.
C16_DownloadFailedRecorded ==
    (pc = "record" /\ LinkButNoFile) =>
        /\ IsDownloadFailed(variant, CurrentRecord)
        /\ ~IsNoLink(variant, CurrentRecord)

\* ------------------------------------------------------------------- C17
\* A call of the fetcher that gave a path.
GaveFile(t) == t[2] \notin {None, "raised"}

\* C17: nu calls the fetcher for every candidate, in the order of the list,
\* whatever the calls before gave; the files kept are those of the calls
\* that gave a path, in that order; the record is a success exactly when
\* one call gave a path, and then it names those files.
C17_EveryCandidateFetched ==
    (variant = "nu" /\ pc \in {"download", "record"}) =>
        /\ Len(tried) = IF pc = "record" THEN Len(links_to_download)
                        ELSE cand - 1
        /\ \A i \in 1..Len(tried) : tried[i][1] = links_to_download[i]
        /\ downloaded_files = SelectSeq(tried, GaveFile)
        /\ pc = "record" =>
              /\ IsSuccess(variant, CurrentRecord)
                    <=> \E i \in 1..Len(tried) : GaveFile(tried[i])
              /\ IsSuccess(variant, CurrentRecord) =>
                    CurrentRecord.downloaded_filename = SelectSeq(tried, GaveFile)

\* Two candidates: the fetch of the first failed, the second was fetched all
\* the same and saved.
C17_Witness ==
    /\ variant = "nu"
    /\ pc = "record"
    /\ Len(tried) = 2
    /\ ~GaveFile(tried[1])
    /\ GaveFile(tried[2])

\* ------------------------------------------------------------------- C18
\* C18: with no result file a run starts from the empty mapping; with a
\* result file that does not parse the load raises and the run is over: no
\* target is processed and the file is not written, so it stays as it was.
C18_LoadErrorStopsRun ==
    /\ fileState = "absent" => results = EmptyMap
    /\ fileState = "corrupt" =>
          /\ pc \in {"idle", "crashed"}
          /\ results = EmptyMap
    /\ pc = "crashed" => (fileState = "corrupt" /\ run > 0)

\* A run was started on a file that does not parse.
C18_Witness ==
    /\ pc = "crashed"
    /\ fileState = "corrupt"
    /\ run = MaxRuns

\* ------------------------------------------------------------------- C19
\* C19: wherever a run is stopped, the middle of a save included, the result
\* file parses and holds every record persisted before.
C19_FileSurvivesStop ==
    /\ fileState # "corrupt"
    /\ everRecorded \subseteq DOMAIN file

\* ------------------------------------------------------------------- C20
\* C20: when an interrupt arrives while an attempt streams a body to disk,
\* the attempt is completed before the exit (the call ends with a return)
\* and the attempt leaves no partially written file in the directory.
C20_CleanEarlyStop ==
    lastResp = "interrupt" =>
        /\ fret # "raised"
        /\ ~\E f \in dir : f.at = attempt /\ f.content = "partial"

\* ------------------------------------------------------------------- C21
\* C21: no call of nu's fetcher ends with its session open: the session is
\* closed after a saved file, after a terminal 403 or 404, after the
\* attempts ran out and when an exception leaves the function.
C21_SessionClosed ==
    /\ fpc = "returned" => session # "open"
    /\ (variant = "nu" /\ fpc = "returned") => session = "closed"
    /\ (variant = "nu" /\ fpc = "loop") => session = "open"

\* An interrupt left nu's fetcher with an exception, the session closed.
C21_Witness ==
    /\ variant = "nu"
    /\ fpc = "returned"
    /\ fret = "raised"
    /\ session = "closed"

\* ------------------------------------------------------------------- C22
\* C22: targets are handled in list order, one at a time: while the loop is
\* at target idx, every target before it was skipped or has its outcome in
\* the result file, and no resolve or fetch of a target has begun before the
\* loop body of that target begins.
C22_OneAtATime ==
    (pc = "loop" \/ Working) =>
        /\ idx \in 1..(NumTargets + 1)
        /\ Working => idx <= NumTargets
        /\ pc = "loop" => LocalsFresh
        /\ \A j \in 1..(idx - 1) :
              /\ fileState = "ok"
              /\ StrKey(j) \in DOMAIN file
              /\ StrKey(j) \in DOMAIN Dump(results)

\* The last target is being downloaded after the one before it was saved
\* with a failure.
C22_Witness ==
    /\ pc = "download"
    /\ idx = NumTargets
    /\ idx > 1
    /\ arrived = "save"
    /\ ~IsSuccess(variant, file[StrKey(idx - 1)])

\* ------------------------------------------------------------------- C23
\* A run is on.
Running == pc = "loop" \/ Working

\* C23: a run of the batch ends: the loop is over after the last target, a
\* resolution navigates at most max_retries times, a fetch makes at most
\* max_retries requests (every call of the fetcher ends with one of
\* FetchReturns), and a target has at most as many fetches as candidates.
C23_Termination ==
    /\ [](pc = "resolve" => nav < max_retries)
    /\ [](pc = "download" => cand <= Len(links_to_download) \/ variant = "thaijo")
    /\ [](Running => idx <= NumTargets + 1)
    /\ Running ~> (pc = "idle")

\* The second of two runs that ran to their ends is over.
C23_Witness ==
    /\ pc = "idle"
    /\ run = MaxRuns
    /\ calm = "done"
    /\ \A t \in Targets : StrKey(t) \in DOMAIN file

\* ------------------------------------------------------------------- C24
\* An href resolved against the url of the page: an absolute href is itself,
\* a href that starts with a slash replaces the path, another one replaces
\* the last part of the path.
Resolved(u, h) ==
    IF StartsWithHttp(h) THEN h
    ELSE IF h[1] = "" THEN SubSeq(u, 1, 3) \o Tail(h)
    ELSE SubSeq(u, 1, Len(u) - 1) \o h

\* C24: the url the resolver returns is the url of the first response seen
\* with content type application/pdf, or, when there was none, the href of
\* the first anchor ending in .pdf, an absolute one as it is and a relative
\* one resolved against the url of the page.
C24_SniffResult ==
    (fpc = "returned" /\ fret.kind = "url") =>
        fret.url = IF lastResp.pdfs # <<>> THEN lastResp.pdfs[1]
                   ELSE Resolved(PageUrl, lastResp.href)

\* ------------------------------------------------------------------- C25
\* C25: a navigation answered 429 is followed by a sleep of 2^attempt plus
\* jitter and by another navigation; when every navigation is answered 429
\* the resolver makes exactly max_retries navigations and returns no url.
C25_Sniff429 ==
    (all429 /\ requests >= 1) =>
        /\ slept >= 2^(requests - 1) + 1
        /\ slept <= 2^(requests - 1) + 3
        /\ sleeps = requests
        /\ fpc = "loop" => (attempt = requests /\ requests < max_retries)
        /\ fpc = "returned" => (requests = max_retries /\ fret.kind = "none")

\* Five navigations, each answered 429, and the resolver returned.
C25_Witness ==
    /\ all429
    /\ fpc = "returned"
    /\ requests = max_retries

\* ------------------------------------------------------------------- C26
\* C26: once the resolution of a target has found no candidate url, the
\* target is not navigated to again: a navigation that met neither a PDF
\* response nor an anchor is the last of its call, which returns no url.
C26_NoLinkNotRetried ==
    (requests >= 1 /\ PageKind(lastResp) = "none") =>
        (fpc = "returned" /\ fret.kind = "none")

\* ------------------------------------------------------------------- C27
\* C27: when the first response of a pass of the Drive downloader has no
\* Content-Disposition header and carries a download_warning cookie, the
\* pass sends one further GET, to the same url with the token appended, and
\* the response to it is the one classified and saved: the call returns a
\* file in that pass exactly when the second response is a 200, the file
\* holds the body of the second response, and a second response of 429 is
\* followed by the backoff of a 429.  A pass whose first response has the
\* header, or neither, sends one GET.
C27_ConfirmedResponseIsFinal ==
    /\ lastResp.first \in {"cd", "bare", "na"} => lastResp.urls = <<DriveUrl>>
    /\ lastResp.first = "token" =>
          /\ lastResp.urls = <<DriveUrl, DriveUrl \o <<"&confirm=", "tok">> >>
          /\ lastResp.r2 = "ok200" =>
                /\ fpc = "returned" /\ fret = "file_full"
                /\ [at |-> attempt, content |-> "full"] \in dir
          /\ lastResp.r2 = "empty200" =>
                /\ fpc = "returned" /\ fret = "file_empty"
                /\ [at |-> attempt, content |-> "empty"] \in dir
          /\ lastResp.r2 \notin {"ok200", "empty200"} =>
                /\ fret \in {"pending", "None", "raised"}
                /\ \A f \in dir : f.content = "partial"
          /\ (lastResp.r2 = "s429" /\ fpc = "loop") =>
                /\ slept >= 2^(attempt - 1) + 1
                /\ slept <= 2^(attempt - 1) + 5
          /\ lastResp.r2 = "exc" => (fpc = "returned" /\ fret = "raised")

\* A pass sent the confirmed GET after a first response that was no 200,
\* and the call returned the file of the second response.
C27_Witness ==
    /\ fpc = "returned"
    /\ lastResp.first = "token"
    /\ lastResp.r1 = "s403"
    /\ lastResp.r2 = "ok200"
    /\ fret = "file_full"
    /\ attempt >= 1

\* ------------------------------------------------------------------- C28
\* C28: no resolver raises for "not found".  A call of the sniff resolver
\* that has returned gave a url or None, never an exception; when its last
\* navigation threw, answered 429 or showed no PDF it gave None, and a
\* navigation that threw ended the call only as the last of max_retries.
\* The Drive rewrite of a share url with no file id is None, and the
\* markdown scan of a page with no link, or of a crawl that failed, is the
\* empty result.
C28_ResolversNeverRaise ==
    /\ fpc = "returned" => fret.kind \in {"url", "none"}
    /\ (fpc = "returned" /\ PageKind(lastResp) \in {"exc", "s429", "none"})
          => fret.kind = "none"
    /\ (fpc = "returned" /\ PageKind(lastResp) = "exc")
          => requests = max_retries
    /\ get_download_url_from_google_drive("drive_noid") = None
    /\ \A p \in {"none", "exc"} : NuLinks(p) = <<>>

\* Every attempt was made, the last navigation threw, and the call returned
\* None.
C28_Witness ==
    /\ fpc = "returned"
    /\ requests = max_retries
    /\ lastResp.status = "exc"
    /\ fret.kind = "none"

\* ------------------------------------------------------------------- C29
\* The targets of the list whose record in the file has a saved file.
Succeeded ==
    {t \in Targets : /\ StrKey(t) \in DOMAIN file
                     /\ HasFile(variant, file[StrKey(t)])}

\* C29: when a run has ended a summary was logged, its processed count is
\* the number of targets of the list and its count of successes is the
\* number of targets whose record has a saved file.
C29_ReportCorrect ==
    report.over =>
        /\ report.shown
        /\ report.processed = NumTargets
        /\ report.found = Cardinality(Succeeded)

\* ------------------------------------------------------------------- C30
\* C30: for a text with one markdown link whose label and url both hold
\* ".pdf" the scan returns exactly one candidate, its text the label
\* stripped and its download_url the url; for a link whose label or url
\* lacks the case-sensitive ".pdf" it returns no candidate.
C30_LinkExtraction ==
    scan.done =>
        scan.out = IF HasPdf(scan.in.label) /\ HasPdf(scan.in.url)
                   THEN << [text |-> Strip(scan.in.label),
                            download_url |-> scan.in.url] >>
                   ELSE <<>>

\* C30: the scan of the spec's example, "* [doc.pdf](https://x.test/doc.pdf)
\* trailing", was made.
C30_Example ==
    /\ scan.done
    /\ scan.in = [label |-> <<"doc", ".pdf">>,
                  url |-> <<"https://", "x.test/doc", ".pdf">>]
    /\ scan.out = << [text |-> <<"doc", ".pdf">>,
                      download_url |-> <<"https://", "x.test/doc", ".pdf">>] >>

\* ------------------------------------------------------------------- C31
\* C31: in thaijo's fetcher an attempt answered with a status of 500 or more
\* is followed by a backoff sleep and does not end the fetch: the fetch is
\* over after it only when max_retries attempts were made.
C31_ServerErrorRetried ==
    (variant = "thaijo" /\ lastResp = "s500") =>
        /\ slept > 0
        /\ requests = attempt
        /\ fpc = "returned" => attempt = max_retries

\* ------------------------------------------------------------------- C32
\* What the last GET of the latest pass of the Drive downloader met.
LastAnswer == IF lastResp.r2 # "na" THEN lastResp.r2 ELSE lastResp.r1

\* C32: in the Drive downloader a pass whose request is answered with 429
\* uses up one attempt, is followed by a sleep of 2^attempt plus a jitter of
\* 1 to 5, and does not end the call: the call is over after it only when
\* max_retries attempts were made.
C32_Drive429Retried ==
    (lastResp.first # "init" /\ LastAnswer = "s429") =>
        /\ attempt >= 1
        /\ slept >= 2^(attempt - 1) + 1
        /\ slept <= 2^(attempt - 1) + 5
        /\ fpc = "returned" => attempt = max_retries

\* ------------------------------------------------------------------- C33
\* C33: when every one of the max_retries passes of the Drive downloader
\* failed, by a request exception, a 429 or another status that is not 200,
\* the call returns None; it does not raise.
C33_DriveGivesUpCleanly ==
    (fpc = "returned" /\ attempt = max_retries) => fret = None

\* ------------------------------------------------------------------- C34
\* C34: within one run no two downloads are written to the same file path.
C34_NoOverwrite ==
    \A i, j \in 1..Len(fs.saved) :
        i < j => fs.saved[i].path # fs.saved[j].path

\* ------------------------------------------------------------------- C35
\* C35: every record a package logged through the logger that its call
\* setup_logging(log_file=F) returned is in F, whatever the order of the
\* calls of setup_logging in the process.
C35_OwnLogFile ==
    \A n \in 1..Len(log.emitted) :
        [file |-> LogFile(log.emitted[n].pkg), n |-> n] \in log.files

\* ------------------------------------------------------------------- C36
\* C36: the url a call of the sniff resolver returns from pdf_urls was
\* captured during the navigation attempt that returns it, in this call: it
\* is the first PDF response of that navigation, and no entry captured in an
\* earlier attempt or an earlier call is in the list when it is read.
C36_ReturnedUrlIsFresh ==
    /\ \A i \in 1..Len(pdf_urls) :
          pdf_urls[i].call = call /\ pdf_urls[i].att = requests - 1
    /\ picked # NoEntry =>
          /\ fpc = "returned"
          /\ picked.call = call
          /\ picked.att = attempt
          /\ picked.url = lastResp.pdfs[1]
          /\ fret = [kind |-> "url", url |-> picked.url]

\* The second call on the page returns a url at a later attempt, an
\* earlier attempt of it having captured a PDF response.
C36_Witness ==
    /\ call = 2
    /\ fpc = "returned"
    /\ attempt >= 1
    /\ stale
    /\ picked.url = PdfUrl2

\* ------------------------------------------------------------------- C37
\* C37: in thaijo's runner every record with a filename has a download
\* link; the processing of a target starts with no link and no path, so
\* that the record of a target whose processing found no link, or raised an
\* exception, has no filename; and the record persisted is the one built.
C37_RecordFromOwnTarget ==
    variant = "thaijo" =>
        /\ \A k \in DOMAIN results :
              results[k].filename # None => results[k].download_link # None
        /\ \A k \in DOMAIN file :
              file[k].filename # None => file[k].download_link # None
        /\ (pc = "resolve" /\ nav = 0) =>
              (pdf_download_link = None /\ saved_filepath = None)
        /\ pc = "download" => saved_filepath = None
        /\ (pc = "loop" /\ arrived = "save") =>
              /\ caught => results[StrKey(idx - 1)].filename = None
              /\ file[StrKey(idx - 1)] = results[StrKey(idx - 1)]

\* A target was recorded with a link and a file, and the record of a later
\* one, whose download raised, has the link and no file.
C37_Witness ==
    /\ variant = "thaijo"
    /\ pc = "loop"
    /\ arrived = "save"
    /\ caught
    /\ \E t \in Targets :
          /\ t < idx - 1
          /\ StrKey(t) \in DOMAIN results
          /\ results[StrKey(t)].filename # None
    /\ results[StrKey(idx - 1)].download_link # None
    /\ results[StrKey(idx - 1)].filename = None

\* ------------------------------------------------------------------- C38
\* Every key of d but k is a key of e with the same record, and e has no
\* key that d has not, k apart.
SameBut(d, e, k) ==
    /\ DOMAIN e \subseteq DOMAIN d \cup {k}
    /\ \A x \in DOMAIN d \ {k} : x \in DOMAIN e /\ e[x] = d[x]

\* C38: the step that records a target changes, in memory and in the file,
\* at most the record of that target; the steps that resolve and download
\* change no record; the step that skips a target changes no record and
\* writes no file.
C38_Frame ==
    [][ /\ (pc = "record" /\ pc' = "loop") =>
              /\ SameBut(results, results', CurrentKey)
              /\ SameBut(file, file', StrKey(idx))
        /\ (pc \in {"resolve", "download"} /\ pc' \in {"resolve", "download", "record"}) =>
              /\ results' = results
              /\ file' = file /\ fileState' = fileState
        /\ (pc = "loop" /\ pc' = "loop" /\ idx' = idx + 1) =>
              /\ results' = results
              /\ file' = file /\ fileState' = fileState
      ]_vars

\* A target was recorded and saved in the second run while the store held
\* the record of a key outside the list and the record of an earlier target.
C38_Witness ==
    /\ pc = "loop"
    /\ arrived = "save"
    /\ run = 2
    /\ StrKey(ExtraKey) \in DOMAIN file
    /\ \E t \in Targets : t < idx - 1 /\ StrKey(t) \in DOMAIN file
    /\ StrKey(idx - 1) \in DOMAIN file

\* ------------------------------------------------------------------- C39
\* C39: in utils.download_pdfs a url is skipped without a request only when
\* an earlier call downloaded its file in full; a url whose download failed
\* is requested again by the next call; and an error on one url does not
\* keep the loop from the urls after it.
C39_FailedNotDone ==
    /\ \A c \in 1..MaxUtilCalls, i \in 1..Len(UtilUrls) :
          util.did[c][i] = "skipped" =>
              \E b \in 1..(c - 1) : util.did[b][i] = "ok"
    /\ \A c \in 1..MaxUtilCalls, i \in 1..Len(UtilUrls) :
          (c < util.call \/ (c = util.call /\ i < util.pos)) =>
              util.did[c][i] # "none"

====
